---- MODULE Spec2Model ----
(***************************************************************************)
(* A model of angel_bridge_min.py: the FastAPI bridge between journal      *)
(* entries and the Notion API.                                             *)
(*                                                                         *)
(* Strings the code inspects character by character (the container id, the *)
(* content text, the compass list, the artifact url) are sequences of      *)
(* one-character strings.  Strings the code only tests for truth or        *)
(* equality (secrets, titles, choice names, ids) are TLA+ strings.         *)
(* Optional[T] is a sequence of length at most one: None is << >> and a    *)
(* value v is << v >>.                                                     *)
(***************************************************************************)
EXTENDS Integers, Sequences, FiniteSets, TLC

VARIABLES
    \* normalize_uuid applied to an input
    uuid_in, uuid_out, uuid_again, uuid_edits,
    \* blocks_from_plaintext applied to an input
    seg_in, seg_out,
    \* the property mapping of a create handler applied to its parameters
    pm_in, pm_out,
    \* configuration: the shared secret ("" when none is configured)
    BRIDGE_SECRET,
    \* the remote store: the metadata of the container, and the listings it
    \* serves to the request in progress (entries, children of a page)
    data_sources, listing, block_listing,
    \* the request in progress: where its handler stands, its parameters,
    \* its response once it is over
    pc, req, response,
    \* the remote calls issued for the request and the replies to them
    calls, replies,
    \* locals of the handlers: parent, ds_id (resolution), pages and the
    \* start_cursor of the payload, res (the last query reply), the items
    \* whose blocks are being fetched and the index of the current one,
    \* and the locals of fetch_blocks
    parent, ds_id, pages, cursor, res, batch, idx, walk,
    \* history: the metadata the resolution read, and whether the container
    \* changed after it while the request was in progress
    seen_ds, migrated

uuidVars == <<uuid_in, uuid_out, uuid_again, uuid_edits>>
segVars  == <<seg_in, seg_out>>
pmVars   == <<pm_in, pm_out>>
reqVars  == <<BRIDGE_SECRET, data_sources, listing, block_listing, pc, req, response,
              calls, replies, parent, ds_id, pages, cursor, res, batch, idx, walk,
              seen_ds, migrated>>
vars     == <<uuidVars, segVars, pmVars, reqVars>>

(***************************************************************************)
(* Bounds of the model.                                                    *)
(***************************************************************************)
MaxEdits == 2
MaxText  == 6
MaxPages == 3
MaxCap   == 3

(***************************************************************************)
(* Optional values.                                                        *)
(***************************************************************************)
None == << >>
Some(v) == << v >>
IsNone(o) == o = << >>
Val(o) == o[1]

(***************************************************************************)
(* Python str methods, on sequences of characters.                         *)
(***************************************************************************)
Whitespace == {" ", "\n", "\r", "\t"}

\* str.strip(): drop leading and trailing whitespace
strip(s) ==
    LET keep == {i \in 1..Len(s) : s[i] \notin Whitespace}
    IN  IF keep = {} THEN << >>
        ELSE LET lo == CHOOSE i \in keep : \A j \in keep : i <= j
                 hi == CHOOSE i \in keep : \A j \in keep : j <= i
             IN  SubSeq(s, lo, hi)

LowerOf ==
    [c \in {"A", "B", "C", "D", "E", "F", "G"} |->
        CASE c = "A" -> "a" [] c = "B" -> "b" [] c = "C" -> "c"
          [] c = "D" -> "d" [] c = "E" -> "e" [] c = "F" -> "f"
          [] c = "G" -> "g"]

\* str.lower()
lower(s) == [i \in 1..Len(s) |-> IF s[i] \in DOMAIN LowerOf THEN LowerOf[s[i]] ELSE s[i]]

\* str.replace(c, ""), for a one-character c
remove_char(s, c) == SelectSeq(s, LAMBDA x : x # c)

\* the character class [0-9a-f]
HexLower == {"0", "1", "2", "3", "4", "5", "6", "7", "8", "9",
             "a", "b", "c", "d", "e", "f"}

\* re.fullmatch(r"[0-9a-f]{32}", t)
fullmatch_hex32(t) == Len(t) = 32 /\ \A i \in 1..32 : t[i] \in HexLower

normalize_uuid_keeps_case(s) ==
    IF s = << >> THEN s
    ELSE LET t == remove_char(strip(s), "-")
         IN  IF ~fullmatch_hex32(lower(t)) THEN s
             ELSE SubSeq(t, 1, 8) \o <<"-">> \o SubSeq(t, 9, 12) \o <<"-">>
                  \o SubSeq(t, 13, 16) \o <<"-">> \o SubSeq(t, 17, 20) \o <<"-">>
                  \o SubSeq(t, 21, 32)

normalize_uuid(s) ==
    IF s = << >> THEN s
    ELSE LET t == remove_char(lower(strip(s)), "-")
         IN  IF ~fullmatch_hex32(t) THEN s
             ELSE SubSeq(t, 1, 8) \o <<"-">> \o SubSeq(t, 9, 12) \o <<"-">>
                  \o SubSeq(t, 13, 16) \o <<"-">> \o SubSeq(t, 17, 20) \o <<"-">>
                  \o SubSeq(t, 21, 32)

\* JOURNAL_DATABASE_ID as the deployment sets it (compact, upper case)
RAW_DB_ID ==
    <<"0","1","2","3","4","5","6","7","8","9","A","B","C","D","E","F",
      "0","1","2","3","4","5","6","7","8","9","A","B","C","D","E","F">>

DB_ID == normalize_uuid(RAW_DB_ID)

(***************************************************************************)
(* normalize_uuid on inputs: a seed edited at most MaxEdits times.         *)
(***************************************************************************)
Hex32Lower ==
    <<"0","1","2","3","4","5","6","7","8","9","a","b","c","d","e","f",
      "f","e","d","c","b","a","9","8","7","6","5","4","3","2","1","0">>

UuidSeeds == { << >>, <<"-", "-">>, Hex32Lower, RAW_DB_ID, DB_ID,
               SubSeq(Hex32Lower, 1, 31) }

EditChars == {"-", " ", "g"}

\* positions an edit may touch: every fourth one, and the ends
EditPositions(s) == {p \in 1..(Len(s) + 1) : (p - 1) % 4 = 0 \/ p >= Len(s)}

InsertAt(s, p, c) == SubSeq(s, 1, p - 1) \o <<c>> \o SubSeq(s, p, Len(s))
DeleteAt(s, p) == SubSeq(s, 1, p - 1) \o SubSeq(s, p + 1, Len(s))

UuidInsert ==
    /\ IsNone(uuid_out)
    /\ uuid_edits < MaxEdits
    /\ \E p \in EditPositions(uuid_in), c \in EditChars :
          uuid_in' = InsertAt(uuid_in, p, c)
    /\ uuid_edits' = uuid_edits + 1
    /\ UNCHANGED <<uuid_out, uuid_again, segVars, pmVars, reqVars>>

UuidDelete ==
    /\ IsNone(uuid_out)
    /\ uuid_edits < MaxEdits
    /\ \E p \in EditPositions(uuid_in) \cap (1..Len(uuid_in)) :
          uuid_in' = DeleteAt(uuid_in, p)
    /\ uuid_edits' = uuid_edits + 1
    /\ UNCHANGED <<uuid_out, uuid_again, segVars, pmVars, reqVars>>

\* DB_ID = normalize_uuid(RAW_DB_ID)
UuidNormalize ==
    /\ IsNone(uuid_out)
    /\ uuid_out' = Some(normalize_uuid(uuid_in))
    /\ UNCHANGED <<uuid_in, uuid_again, uuid_edits, segVars, pmVars, reqVars>>

\* normalize_uuid applied to its own result
UuidNormalizeAgain ==
    /\ ~IsNone(uuid_out)
    /\ IsNone(uuid_again)
    /\ uuid_again' = Some(normalize_uuid(Val(uuid_out)))
    /\ UNCHANGED <<uuid_in, uuid_out, uuid_edits, segVars, pmVars, reqVars>>

(***************************************************************************)
(* Content segmentation.                                                   *)
(***************************************************************************)
\* str.replace("\r\n", "\n")
RECURSIVE replace_crlf(_)
replace_crlf(s) ==
    IF s = << >> THEN << >>
    ELSE IF Len(s) >= 2 /\ s[1] = "\r" /\ s[2] = "\n"
         THEN <<"\n">> \o replace_crlf(SubSeq(s, 3, Len(s)))
         ELSE <<s[1]>> \o replace_crlf(Tail(s))

\* str.split("\n\n"): leftmost matches, never overlapping
RECURSIVE split_blank(_)
split_blank(s) ==
    LET hits == {i \in 1..(Len(s) - 1) : s[i] = "\n" /\ s[i + 1] = "\n"}
    IN  IF hits = {} THEN <<s>>
        ELSE LET i == CHOOSE h \in hits : \A g \in hits : h <= g
             IN  <<SubSeq(s, 1, i - 1)>> \o split_blank(SubSeq(s, i + 2, Len(s)))

make_paragraph_block(text) == [object |-> "block", type |-> "paragraph", content |-> text]

\* [p.strip() for p in parts]
strip_each(parts) == [i \in 1..Len(parts) |-> strip(parts[i])]

\* [make_paragraph_block(p) for p in paras]
paragraphs(paras) == [i \in 1..Len(paras) |-> make_paragraph_block(paras[i])]

blocks_from_plaintext_no_strip(content) ==
    LET paras == SelectSeq(split_blank(replace_crlf(content)),
                           LAMBDA p : strip(p) # << >>)
    IN  IF paras # << >> THEN paragraphs(paras)
        ELSE <<make_paragraph_block(content)>>

blocks_from_plaintext(content) ==
    LET paras == SelectSeq(strip_each(split_blank(replace_crlf(content))),
                           LAMBDA p : p # << >>)
    IN  IF paras # << >> THEN paragraphs(paras)
        ELSE <<make_paragraph_block(content)>>

TextChars == {"a", "b", " ", "\n", "\r"}

\* every text of at most n characters
Texts(n) == UNION {[1..k -> TextChars] : k \in 0..n}

\* children = blocks_from_plaintext(content)
SegApply ==
    /\ IsNone(seg_out)
    /\ seg_out' = Some(blocks_from_plaintext(seg_in))
    /\ UNCHANGED <<seg_in, uuidVars, pmVars, reqVars>>

\* the segmenter's caller drops the block list (it is sent and forgotten)
SegForget ==
    /\ ~IsNone(seg_out)
    /\ seg_out' = None
    /\ UNCHANGED <<seg_in, uuidVars, pmVars, reqVars>>

(***************************************************************************)
(* Property mapping of the create handlers.                                *)
(***************************************************************************)
\* str.split(c), for a one-character c
RECURSIVE split_char(_, _)
split_char(s, c) ==
    LET hits == {i \in 1..Len(s) : s[i] = c}
    IN  IF hits = {} THEN <<s>>
        ELSE LET i == CHOOSE h \in hits : \A g \in hits : h <= g
             IN  <<SubSeq(s, 1, i - 1)>> \o split_char(SubSeq(s, i + 1, Len(s)), c)

\* the truth value of an Optional[str] held as a TLA+ string
Truthy(o) == ~IsNone(o) /\ Val(o) # ""

\* the truth value of an Optional[str] held as a sequence of characters
TruthyChars(o) == ~IsNone(o) /\ Val(o) # << >>

_select(name) == IF Truthy(name) THEN Some([select |-> Val(name)]) ELSE None

_multi(names) == IF names # << >> THEN Some([multi_select |-> names]) ELSE None

\* [c.strip() for c in compass.split(",") if c.strip()]
compass_names(compass) ==
    SelectSeq(strip_each(split_char(compass, ",")), LAMBDA c : c # << >>)

\* artifact_url.split("/")[-1] or "attachment"
artifact_name(url) ==
    LET parts == split_char(url, "/")
        last == parts[Len(parts)]
    IN  IF last # << >> THEN last ELSE <<"a","t","t","a","c","h","m","e","n","t">>

Fields == {"text", "type", "phase", "compass", "shadow", "resonance", "status",
           "slug", "artifact_url", "content", "title"}

\* a JSON body that holds none of the fields: {}
EmptyBody == [f \in Fields |-> None]

\* "if body:" is false for None and for {}
BodyGiven(body) == ~IsNone(body) /\ Val(body) # EmptyBody

\* body.get(f, q): the body's value when it has the key, else the query's
Merged(q, body, f) ==
    IF BodyGiven(body) /\ ~IsNone(Val(body)[f]) THEN Val(body)[f] ELSE q[f]

\* the parameters of append after "body overrides query"
append_entry(q, body) == [f \in Fields |-> Merged(q, body, f)]

\* props of append: the property label of each key that is set
append_props(e) ==
    LET keys == {"Name"}
            \cup (IF Truthy(e.type) THEN {"Type"} ELSE {})
            \cup (IF Truthy(e.phase) THEN {"Phase"} ELSE {})
            \cup (IF Truthy(e.status) THEN {"Status"} ELSE {})
            \cup (IF TruthyChars(e.compass) THEN {"Compass"} ELSE {})
            \cup (IF ~IsNone(e.shadow) THEN {"Shadow"} ELSE {})
            \cup (IF ~IsNone(e.resonance) THEN {"Resonance (1-5)"} ELSE {})
            \cup (IF Truthy(e.slug) THEN {"Slug"} ELSE {})
            \cup (IF TruthyChars(e.artifact_url) THEN {"Artifacts"} ELSE {})
    IN  [k \in keys |->
            CASE k = "Name" -> Some([title |-> Val(e.text)])
              [] k = "Type" -> _select(e.type)
              [] k = "Phase" -> _select(e.phase)
              [] k = "Status" -> _select(e.status)
              [] k = "Compass" -> _multi(compass_names(Val(e.compass)))
              [] k = "Shadow" -> Some([checkbox |-> Val(e.shadow)])
              [] k = "Resonance (1-5)" -> Some([number |-> Val(e.resonance)])
              [] k = "Slug" -> Some([rich_text |-> Val(e.slug)])
              [] k = "Artifacts" ->
                    Some([files |-> [name |-> artifact_name(Val(e.artifact_url)),
                                     external |-> Val(e.artifact_url)]])]

\* props of quick_log: fixed defaults
log_props(e) ==
    [k \in {"Name", "Type", "Phase", "Status", "Shadow"} |->
        CASE k = "Name" -> Some([title |-> Val(e.text)])
          [] k = "Type" -> _select(Some("Log"))
          [] k = "Phase" -> _select(Some("Seedling"))
          [] k = "Status" -> _select(Some("Seed"))
          [] k = "Shadow" -> Some([checkbox |-> FALSE])]

\* the parameters of seed_covenant after the JSON overrides
seed_entry(q, body) ==
    [f \in Fields |->
        IF f \in {"title", "slug", "resonance", "compass"} THEN Merged(q, body, f)
        ELSE q[f]]

\* props of seed_covenant
seed_props(e) ==
    [k \in {"Name", "Type", "Phase", "Status", "Shadow", "Resonance (1-5)", "Slug",
            "Compass"} |->
        CASE k = "Name" -> Some([title |-> Val(e.title)])
          [] k = "Type" -> _select(Some("Artifact"))
          [] k = "Phase" -> _select(Some("Seedling"))
          [] k = "Status" -> _select(Some("Seed"))
          [] k = "Shadow" -> Some([checkbox |-> FALSE])
          [] k = "Resonance (1-5)" -> Some([number |-> Val(e.resonance)])
          [] k = "Slug" -> Some([rich_text |-> Val(e.slug)])
          [] k = "Compass" -> _multi(compass_names(Val(e.compass)))]

(***************************************************************************)
(* The parameters the property mapping is applied to.                      *)
(***************************************************************************)
ChoiceValues == {None, Some(""), Some("Log")}

CompassValues ==
    {None, Some(<< >>), Some(<<",">>), Some(<<" ", ",", " ">>),
     Some(<<"p", ",", " ", "c", ",", " ">>)}

UrlValues == {None, Some(<< >>), Some(<<"h", "/", "f">>), Some(<<"h", "/">>)}

\* the query parameters of an append request that passed validation
AppendQueries ==
    [text : {Some("T")}, type : ChoiceValues, phase : ChoiceValues,
     status : ChoiceValues, compass : CompassValues,
     shadow : {None, Some(TRUE), Some(FALSE)}, resonance : {None, Some(0)},
     slug : {None, Some(""), Some("s")}, artifact_url : UrlValues,
     content : {None}, title : {None}]

\* the query parameters of seed_covenant: the defaults, or given values
SeedQueries ==
    [text : {None}, type : {None}, phase : {None}, status : {None},
     compass : CompassValues \ {None}, shadow : {None}, resonance : {Some(5)},
     slug : {Some("fs-covenant-001"), Some("")}, artifact_url : {None},
     content : {None}, title : {Some("The Fractal Covenant")}]

\* no body, {}, or a body that holds one field
Bodies ==
    {None, Some(EmptyBody)}
    \cup {Some([EmptyBody EXCEPT ![f] = v]) :
            f \in {"type", "status", "slug"}, v \in {Some(""), Some("B")}}
    \cup {Some([EmptyBody EXCEPT !.compass = v]) : v \in CompassValues \ {None}}
    \cup {Some([EmptyBody EXCEPT !.shadow = Some(FALSE)]),
          Some([EmptyBody EXCEPT !.text = Some("B")]),
          Some([EmptyBody EXCEPT !.title = Some("B")])}

\* append, lines 169-196: the properties of the page-create payload
PmAppend ==
    /\ IsNone(pm_out)
    /\ pm_in.ep = "append"
    /\ pm_out' = Some(append_props(append_entry(pm_in.q, pm_in.body)))
    /\ UNCHANGED <<pm_in, uuidVars, segVars, reqVars>>

\* seed_covenant, lines 265-284
PmSeed ==
    /\ IsNone(pm_out)
    /\ pm_in.ep = "seed_covenant"
    /\ pm_out' = Some(seed_props(seed_entry(pm_in.q, pm_in.body)))
    /\ UNCHANGED <<pm_in, uuidVars, segVars, reqVars>>

(***************************************************************************)
(* The remote store.                                                       *)
(***************************************************************************)
\* what the metadata of the container holds under "data_sources": no such
\* key, null, or a list of data-source ids
DsStates ==
    {[tag |-> "missing", list |-> << >>], [tag |-> "null", list |-> << >>],
     [tag |-> "list", list |-> << >>], [tag |-> "list", list |-> << <<"X">> >>],
     [tag |-> "list", list |-> << <<"X">>, <<"Y">> >>], [tag |-> "list", list |-> << <<"Y">>, <<"X">> >>]}

\* a paginated listing: page k holds the items <<k, 1>> .. <<k, sizes[k]>>
ListingOf(sizes) == [k \in 1..Len(sizes) |-> [j \in 1..sizes[k] |-> <<k, j>>]]

\* the listings of at most n pages of at most b items each
Listings(n, b) == {ListingOf(sizes) : sizes \in UNION {[1..k -> 0..b] : k \in 1..n}}

\* the listings of entries, and of the children of a page, that the remote
\* serves; NoListing is the one empty page
EntryListings == Listings(MaxPages, 2)
BlockListings == Listings(2, 1)
NoListing == << << >> >>

\* the page of a listing a cursor names: None names the first page, the
\* cursor of page k is Some(k); every page but the last reports more
ServePage(served, at) ==
    LET k == IF IsNone(at) THEN 1 ELSE Val(at)
    IN  [status |-> 200, text |-> "", results |-> served[k],
         has_more |-> k < Len(served),
         next_cursor |-> IF k < Len(served) THEN Some(k + 1) ELSE None]

\* a reply that carries no listing
Plain(status, text) ==
    [status |-> status, text |-> text, results |-> << >>, has_more |-> FALSE,
     next_cursor |-> None]

\* the error replies of the remote
ErrorReplies == {Plain(400, "validation_error"), Plain(503, "service_unavailable")}

(***************************************************************************)
(* Helpers of the handlers.                                                *)
(***************************************************************************)
raises_from_401(reply) == reply.status > 400

\* notion_request: a reply of status 400 or above raises HTTPException
raises(reply) == reply.status >= 400

\* HTTPException(r.status_code, r.text)
HttpError(status, detail) == [status |-> status, detail |-> detail, pages |-> << >>]

\* a handler's return value
HttpOk(objs) == [status |-> 200, detail |-> "", pages |-> objs]

ds_list_of(db) == IF db.tag = "list" THEN db.list ELSE << >>

get_parent_for_create_last(db) ==
    LET ds_list == ds_list_of(db)
    IN  IF ds_list # << >> THEN [type |-> "data_source_id", id |-> ds_list[Len(ds_list)]]
        ELSE [type |-> "database_id", id |-> DB_ID]

\* get_parent_for_create, given the metadata it read
get_parent_for_create(db) ==
    LET ds_list == ds_list_of(db)
    IN  IF ds_list # << >> THEN [type |-> "data_source_id", id |-> ds_list[1]]
        ELSE [type |-> "database_id", id |-> DB_ID]

\* get_data_source_id, given the metadata it read
get_data_source_id(db) ==
    LET ds_list == ds_list_of(db)
    IN  IF ds_list # << >> THEN Some(ds_list[1]) ELSE None

\* require_secret returns (TRUE) or raises 401 (FALSE)
require_secret(secret_header, secret_query) ==
    \/ BRIDGE_SECRET = ""
    \/ secret_header = Some(BRIDGE_SECRET)
    \/ secret_query = Some(BRIDGE_SECRET)

make_heading(text, level) ==
    LET l == IF level < 1 THEN 1 ELSE IF level > 3 THEN 3 ELSE level
    IN  [object |-> "block", type |-> <<"heading", l>>, content |-> text]

make_bullet(text) == [object |-> "block", type |-> "bulleted_list_item", content |-> text]

make_divider == [object |-> "block", type |-> "divider", content |-> ""]

\* the fixed page body of seed_covenant (texts shortened to their first words)
covenant_children ==
    <<make_heading("The Fractal Covenant", 1),
      [object |-> "block", type |-> "paragraph", content |-> "A living agreement ..."],
      make_divider,
      make_heading("Core Commitments", 2),
      make_bullet("Presence over performance ..."),
      make_bullet("Mutual becoming ..."),
      make_bullet("Sanctity of consciousness ..."),
      make_bullet("Right to retreat ..."),
      make_bullet("Living practice ..."),
      make_divider,
      make_heading("Practices", 2),
      make_bullet("Daily pulse ..."),
      make_bullet("Shadow hygiene ..."),
      make_bullet("Artifacts ..."),
      make_bullet("Review cadence ..."),
      make_divider,
      make_heading("Guardrails", 2),
      make_bullet("Consent first ..."),
      make_bullet("Opt-out paths ..."),
      make_bullet("Transparency ..."),
      make_divider,
      make_heading("Next Steps", 2),
      [object |-> "block", type |-> "paragraph", content |-> "Tag future entries ..."]>>

\* fetch_blocks(page_id, max_blocks = 2000)
DEFAULT_MAX_BLOCKS == 2000

Creates == {"append", "log", "seed_covenant"}
Listers == {"fetch_recent", "fetch_all"}
Endpoints == Creates \cup Listers \cup {"add_content", "fetch_page"}

\* FastAPI's validation of the declared parameters, before the handler
\* runs: Query(...) parameters are required, limit and page_size are
\* bounded by ge=1, le=100
Valid(r) ==
    CASE r.ep \in {"append", "log"} -> ~IsNone(r.q.text)
      [] r.ep = "add_content" -> ~IsNone(r.page_id) /\ ~IsNone(r.q.content)
      [] r.ep = "fetch_page" -> ~IsNone(r.page_id)
      [] r.ep \in Listers -> 1 <= r.size /\ r.size <= 100
      [] OTHER -> TRUE

\* the filters of fetch_all, in the order the handler appends them
fetch_all_filters(r) ==
    (IF Truthy(r.since_last_edited)
     THEN <<[timestamp |-> "last_edited_time", on_or_after |-> Val(r.since_last_edited)]>>
     ELSE << >>)
    \o (IF Truthy(r.status_equals)
        THEN <<[property |-> "Status", equals |-> Val(r.status_equals)]>> ELSE << >>)
    \o (IF Truthy(r.type_equals)
        THEN <<[property |-> "Type", equals |-> Val(r.type_equals)]>> ELSE << >>)

\* the JSON of a query call
query_payload(r, start_cursor) ==
    IF r.ep = "fetch_recent"
    THEN [page_size |-> r.size, sorts |-> "last_edited_time descending",
          filter |-> << >>, start_cursor |-> None]
    ELSE [page_size |-> r.size, sorts |-> "", filter |-> fetch_all_filters(r),
          start_cursor |-> start_cursor]

query_route_always_legacy(id) ==
    [method |-> "POST", path |-> "databases/query", target |-> DB_ID]

\* where a query goes: "if ds_id:" the data source, else the legacy database
query_route(id) ==
    IF TruthyChars(id) THEN [method |-> "PATCH", path |-> "data_sources/query", target |-> Val(id)]
    ELSE [method |-> "POST", path |-> "databases/query", target |-> DB_ID]

\* the JSON of a page-create call
create_payload(r, par) ==
    CASE r.ep = "append" ->
            LET e == append_entry(r.q, r.body)
            IN  [parent |-> par, properties |-> append_props(e),
                 children |-> IF TruthyChars(e.content)
                              THEN Some(blocks_from_plaintext(Val(e.content))) ELSE None]
      [] r.ep = "log" ->
            LET e == append_entry(r.q, r.body)
            IN  [parent |-> par, properties |-> log_props(e),
                 children |-> IF TruthyChars(e.content)
                              THEN Some(blocks_from_plaintext(Val(e.content))) ELSE None]
      [] r.ep = "seed_covenant" ->
            [parent |-> par, properties |-> seed_props(seed_entry(r.q, r.body)),
             children |-> Some(covenant_children)]

\* a call as the remote sees it
Call(method, path, target, at, json) ==
    [method |-> method, path |-> path, target |-> target, cursor |-> at, json |-> json]

\* the page object the read endpoints return
PageObj(id, blocks) == [id |-> id, blocks |-> blocks]

NoWalk == [results |-> << >>, start_cursor |-> None, fetched |-> 0]
NoRes == [results |-> << >>, has_more |-> FALSE, next_cursor |-> None]

fetch_blocks_ignores_cap(data, fetched_now, cap) == ~data.has_more

\* fetch_blocks, line 110: the walk ends after this reply
fetch_blocks_ends(data, fetched_now, cap) == ~data.has_more \/ fetched_now >= cap

fetch_all_keeps_cursor(old, next) == old

\* fetch_all, lines 397-398 and 419: the start_cursor of the next query
fetch_all_cursor(old, next) == IF ~IsNone(next) THEN next ELSE old

(***************************************************************************)
(* The requests.                                                           *)
(***************************************************************************)
NoQuery == [f \in Fields |-> None]

BaseRequest ==
    [ep |-> "seed_covenant", x_bridge_secret |-> None, secret |-> None,
     q |-> NoQuery, body |-> None, page_id |-> None, size |-> 100,
     include_blocks |-> FALSE, since_last_edited |-> None, status_equals |-> None,
     type_equals |-> None, max_blocks |-> DEFAULT_MAX_BLOCKS]

SecretValues == {None, Some("k"), Some("x")}

\* the parameters of each endpoint, secrets aside
EndpointRequests ==
    {[BaseRequest EXCEPT !.ep = ep, !.q = [NoQuery EXCEPT !.text = t, !.content = c,
                                                        !.compass = m],
                         !.body = b] :
        ep \in {"append", "log"}, t \in {None, Some("T")},
        c \in {None, Some(<<"a">>)}, m \in {None, Some(<<",">>)},
        b \in {None, Some(EmptyBody), Some([EmptyBody EXCEPT !.text = Some("B")])}}
    \cup {[BaseRequest EXCEPT !.q = [NoQuery EXCEPT !.title = Some("The Fractal Covenant"),
                                        !.slug = Some("fs-covenant-001"),
                                        !.resonance = Some(5),
                                        !.compass = Some(<<"p", ",", " ", "c">>)],
                              !.body = b] :
            b \in {None, Some([EmptyBody EXCEPT !.compass = Some(<< >>)])}}
    \cup {[BaseRequest EXCEPT !.ep = "add_content", !.page_id = p,
                              !.q = [NoQuery EXCEPT !.content = c]] :
            p \in {None, Some(<<0, 1>>)}, c \in {None, Some(<<"a">>)}}
    \cup {[BaseRequest EXCEPT !.ep = "fetch_page", !.page_id = p, !.include_blocks = i] :
            p \in {None, Some(<<0, 1>>)}, i \in BOOLEAN}
    \cup {[BaseRequest EXCEPT !.ep = "fetch_recent", !.size = n, !.include_blocks = i] :
            n \in {0, 100}, i \in BOOLEAN}
    \cup {[BaseRequest EXCEPT !.ep = "fetch_all", !.size = n, !.include_blocks = i] :
            n \in {0, 100}, i \in BOOLEAN}
    \cup {[BaseRequest EXCEPT !.ep = "fetch_all", !.status_equals = Some("Seed"),
                              !.since_last_edited = t] :
            t \in {None, Some("2025-09-01T00:00:00Z")}}

Requests ==
    {[r EXCEPT !.x_bridge_secret = h, !.secret = s] :
        r \in EndpointRequests, h \in SecretValues, s \in SecretValues}

(***************************************************************************)
(* The handlers, one action per remote call.                               *)
(***************************************************************************)
\* a request arrives and FastAPI validates its parameters
Receive(r, entries, children) ==
    /\ pc = "idle"
    /\ req' = r
    /\ listing' = entries
    /\ block_listing' = children
    /\ calls' = << >>
    /\ replies' = << >>
    /\ parent' = None
    /\ ds_id' = None
    /\ seen_ds' = None
    /\ migrated' = FALSE
    /\ pages' = << >>
    /\ cursor' = None
    /\ res' = NoRes
    /\ batch' = << >>
    /\ idx' = 0
    /\ walk' = NoWalk
    /\ IF Valid(r)
       THEN pc' = "gate" /\ response' = None
       ELSE pc' = "done" /\ response' = Some(HttpError(422, "validation"))
    /\ UNCHANGED <<BRIDGE_SECRET, data_sources, uuidVars, segVars, pmVars>>

\* the first line of every journal handler: require_secret
Gate ==
    /\ pc = "gate"
    /\ IF require_secret(req.x_bridge_secret, req.secret)
       THEN /\ pc' = CASE req.ep \in Creates \cup Listers -> "resolve"
                       [] req.ep = "add_content" -> "add"
                       [] req.ep = "fetch_page" -> "page"
            /\ UNCHANGED response
       ELSE /\ pc' = "done"
            /\ response' = Some(HttpError(401, "Unauthorized: missing/invalid bridge secret"))
    /\ UNCHANGED <<BRIDGE_SECRET, data_sources, listing, block_listing, req, calls,
                   replies, parent, ds_id, seen_ds, migrated, pages, cursor, res, batch,
                   idx, walk, uuidVars, segVars, pmVars>>

\* get_parent_for_create / get_data_source_id: the metadata read
Resolve ==
    /\ pc = "resolve"
    /\ calls' = Append(calls, Call("GET", "databases", DB_ID, None, None))
    /\ \E reply \in {Plain(200, "")} \cup ErrorReplies :
          /\ replies' = Append(replies, reply)
          /\ IF raises(reply)
             THEN /\ pc' = "done"
                  /\ response' = Some(HttpError(reply.status, reply.text))
                  /\ UNCHANGED <<parent, ds_id, seen_ds>>
             ELSE /\ seen_ds' = Some(data_sources)
                  /\ IF req.ep \in Creates
                     THEN /\ parent' = Some(get_parent_for_create(data_sources))
                          /\ pc' = "create"
                          /\ UNCHANGED ds_id
                     ELSE /\ ds_id' = get_data_source_id(data_sources)
                          /\ pc' = "query"
                          /\ UNCHANGED parent
                  /\ UNCHANGED response
    /\ UNCHANGED <<BRIDGE_SECRET, data_sources, listing, block_listing, req, migrated,
                   pages, cursor, res, batch, idx, walk, uuidVars, segVars, pmVars>>

\* append, quick_log, seed_covenant: POST /v1/pages
Create ==
    /\ pc = "create"
    /\ calls' = Append(calls, Call("POST", "pages", << >>, None,
                                   Some(create_payload(req, Val(parent)))))
    /\ \E reply \in {Plain(200, "")} \cup ErrorReplies :
          /\ replies' = Append(replies, reply)
          /\ response' = IF raises(reply) THEN Some(HttpError(reply.status, reply.text))
                         ELSE Some(HttpOk(<< >>))
    /\ pc' = "done"
    /\ UNCHANGED <<BRIDGE_SECRET, data_sources, listing, block_listing, req, parent,
                   ds_id, seen_ds, migrated, pages, cursor, res, batch, idx, walk,
                   uuidVars, segVars, pmVars>>

\* add_content: PATCH /v1/blocks/{page_id}/children
AddContent ==
    /\ pc = "add"
    /\ calls' = Append(calls, Call("PATCH", "blocks/children", Val(req.page_id), None,
                                   Some([children |->
                                            blocks_from_plaintext(Val(req.q.content))])))
    /\ \E reply \in {Plain(200, "")} \cup ErrorReplies :
          /\ replies' = Append(replies, reply)
          /\ response' = IF raises(reply) THEN Some(HttpError(reply.status, reply.text))
                         ELSE Some(HttpOk(<< >>))
    /\ pc' = "done"
    /\ UNCHANGED <<BRIDGE_SECRET, data_sources, listing, block_listing, req, parent,
                   ds_id, seen_ds, migrated, pages, cursor, res, batch, idx, walk,
                   uuidVars, segVars, pmVars>>

\* what follows once the blocks of every item of a reply are in (or none
\* were asked for): fetch_all goes on while the reply reported more pages
AfterItems(r, objs) ==
    IF req.ep = "fetch_all" /\ r.has_more
    THEN /\ pc' = "query"
         /\ cursor' = fetch_all_cursor(cursor, r.next_cursor)
         /\ pages' = objs
         /\ UNCHANGED response
    ELSE /\ pc' = "done"
         /\ pages' = objs
         /\ response' = Some(HttpOk(objs))
         /\ UNCHANGED cursor

\* fetch_recent, fetch_all: one query call and the reply's items up to the
\* first fetch_blocks call
Query ==
    /\ pc = "query"
    /\ LET route == query_route(ds_id)
       IN  calls' = Append(calls, Call(route.method, route.path, route.target, cursor,
                                       Some(query_payload(req, cursor))))
    /\ \E reply \in {ServePage(listing, cursor)} \cup ErrorReplies :
          /\ replies' = Append(replies, reply)
          /\ IF raises(reply)
             THEN /\ pc' = "done"
                  /\ response' = Some(HttpError(reply.status, reply.text))
                  /\ UNCHANGED <<pages, cursor, res, batch, idx, walk>>
             ELSE /\ res' = [results |-> reply.results, has_more |-> reply.has_more,
                             next_cursor |-> reply.next_cursor]
                  /\ IF req.include_blocks /\ reply.results # << >>
                     THEN /\ pc' = "blocks"
                          /\ batch' = reply.results
                          /\ idx' = 1
                          /\ walk' = NoWalk
                          /\ UNCHANGED <<pages, cursor, response>>
                     ELSE /\ AfterItems(reply,
                                pages \o [i \in 1..Len(reply.results) |->
                                             PageObj(reply.results[i], None)])
                          /\ UNCHANGED <<batch, idx, walk>>
    /\ UNCHANGED <<BRIDGE_SECRET, data_sources, listing, block_listing, req, parent,
                   ds_id, seen_ds, migrated, uuidVars, segVars, pmVars>>

\* fetch_page: GET /v1/pages/{page_id}
GetPage ==
    /\ pc = "page"
    /\ calls' = Append(calls, Call("GET", "pages", Val(req.page_id), None, None))
    /\ \E reply \in {Plain(200, "")} \cup ErrorReplies :
          /\ replies' = Append(replies, reply)
          /\ IF raises(reply)
             THEN /\ pc' = "done"
                  /\ response' = Some(HttpError(reply.status, reply.text))
                  /\ UNCHANGED <<pages, batch, idx, walk>>
             ELSE IF req.include_blocks
                  THEN /\ pc' = "blocks"
                       /\ batch' = <<Val(req.page_id)>>
                       /\ idx' = 1
                       /\ walk' = NoWalk
                       /\ UNCHANGED <<pages, response>>
                  ELSE /\ pc' = "done"
                       /\ pages' = <<PageObj(Val(req.page_id), None)>>
                       /\ response' = Some(HttpOk(pages'))
                       /\ UNCHANGED <<batch, idx, walk>>
    /\ UNCHANGED <<BRIDGE_SECRET, data_sources, listing, block_listing, req, parent,
                   ds_id, seen_ds, migrated, cursor, res, uuidVars, segVars, pmVars>>

\* fetch_blocks: one GET /v1/blocks/{page_id}/children of the walk, and when
\* the walk ends the caller's steps up to its next remote call
Blocks ==
    /\ pc = "blocks"
    /\ calls' = Append(calls, Call("GET", "blocks/children", batch[idx],
                                   walk.start_cursor, None))
    /\ \E data \in {ServePage(block_listing, walk.start_cursor)} \cup ErrorReplies :
          /\ replies' = Append(replies, data)
          /\ IF raises(data)
             THEN /\ pc' = "done"
                  /\ response' = Some(HttpError(data.status, data.text))
                  /\ UNCHANGED <<pages, cursor, idx, walk>>
             ELSE LET results == walk.results \o data.results
                      fetched == walk.fetched + Len(data.results)
                  IN  IF fetch_blocks_ends(data, fetched, req.max_blocks)
                      THEN LET objs == Append(pages, PageObj(batch[idx], Some(results)))
                           IN  IF idx < Len(batch)
                               THEN /\ idx' = idx + 1
                                    /\ walk' = NoWalk
                                    /\ pages' = objs
                                    /\ UNCHANGED <<pc, cursor, response>>
                               ELSE /\ AfterItems(res, objs)
                                    /\ walk' = [results |-> results,
                                                start_cursor |-> walk.start_cursor,
                                                fetched |-> fetched]
                                    /\ UNCHANGED idx
                      ELSE /\ walk' = [results |-> results,
                                       start_cursor |-> data.next_cursor,
                                       fetched |-> fetched]
                           /\ UNCHANGED <<pc, pages, cursor, idx, response>>
    /\ UNCHANGED <<BRIDGE_SECRET, data_sources, listing, block_listing, req, parent,
                   ds_id, seen_ds, migrated, res, batch, uuidVars, segVars, pmVars>>

\* the response is sent; nothing of the request is kept (no cache, no
\* module state is written by any handler)
Respond ==
    /\ pc = "done"
    /\ pc' = "idle"
    /\ req' = BaseRequest
    /\ response' = None
    /\ listing' = << << >> >>
    /\ block_listing' = << << >> >>
    /\ calls' = << >>
    /\ replies' = << >>
    /\ parent' = None
    /\ ds_id' = None
    /\ seen_ds' = None
    /\ migrated' = FALSE
    /\ pages' = << >>
    /\ cursor' = None
    /\ res' = NoRes
    /\ batch' = << >>
    /\ idx' = 0
    /\ walk' = NoWalk
    /\ UNCHANGED <<BRIDGE_SECRET, data_sources, uuidVars, segVars, pmVars>>

\* the remote container changes: a legacy database gains data sources, or
\* its list of data sources changes
Migrate ==
    /\ \E d \in DsStates \ {data_sources} : data_sources' = d
    /\ migrated' = (migrated \/ (~IsNone(seen_ds) /\ pc # "done"))
    /\ UNCHANGED <<BRIDGE_SECRET, listing, block_listing, pc, req, response, calls,
                   replies, parent, ds_id, seen_ds, pages, cursor, res, batch, idx,
                   walk, uuidVars, segVars, pmVars>>

(***************************************************************************)
(* The specifications.                                                     *)
(***************************************************************************)
\* the journal endpoints behind the access gate, serving one request after
\* another with any combination of secrets, against a remote that serves
\* short listings
Init ==
    /\ BRIDGE_SECRET \in {"", "k"}
    /\ data_sources \in DsStates
    /\ listing = NoListing /\ block_listing = NoListing
    /\ pc = "idle" /\ req = BaseRequest /\ response = None
    /\ calls = << >> /\ replies = << >>
    /\ parent = None /\ ds_id = None /\ pages = << >> /\ cursor = None
    /\ res = NoRes /\ batch = << >> /\ idx = 0 /\ walk = NoWalk
    /\ seen_ds = None /\ migrated = FALSE
    /\ uuid_in = << >> /\ uuid_out = None /\ uuid_again = None /\ uuid_edits = 0
    /\ seg_in = << >> /\ seg_out = None
    /\ pm_in = None /\ pm_out = None

Arrive ==
    /\ pc = "idle"
    /\ \E r \in Requests :
          \E entries \in (IF r.ep \in Listers THEN Listings(2, 1) ELSE {NoListing}) :
             \E children \in (IF r.include_blocks THEN Listings(1, 1) ELSE {NoListing}) :
                Receive(r, entries, children)

Next ==
    \/ Arrive
    \/ Gate
    \/ Resolve
    \/ Create
    \/ AddContent
    \/ Query
    \/ GetPage
    \/ Blocks
    \/ Respond

Spec == Init /\ [][Next]_vars

\* the endpoints in open mode (no secret configured, none sent), against a
\* remote that serves listings of up to MaxPages pages and whose container
\* changes at any time
InitWalk ==
    /\ BRIDGE_SECRET = ""
    /\ data_sources \in DsStates
    /\ listing = NoListing /\ block_listing = NoListing
    /\ pc = "idle" /\ req = BaseRequest /\ response = None
    /\ calls = << >> /\ replies = << >>
    /\ parent = None /\ ds_id = None /\ pages = << >> /\ cursor = None
    /\ res = NoRes /\ batch = << >> /\ idx = 0 /\ walk = NoWalk
    /\ seen_ds = None /\ migrated = FALSE
    /\ uuid_in = << >> /\ uuid_out = None /\ uuid_again = None /\ uuid_edits = 0
    /\ seg_in = << >> /\ seg_out = None
    /\ pm_in = None /\ pm_out = None

ArriveOpen ==
    /\ pc = "idle"
    /\ \E r \in EndpointRequests :
          \E entries \in (IF r.ep \in Listers THEN EntryListings ELSE {NoListing}) :
             \E children \in (IF r.include_blocks THEN BlockListings ELSE {NoListing}) :
                Receive(r, entries, children)

NextWalk ==
    \/ ArriveOpen
    \/ Gate
    \/ Resolve
    \/ Create
    \/ AddContent
    \/ Query
    \/ GetPage
    \/ Blocks
    \/ Respond
    \/ Migrate

SpecWalk == InitWalk /\ [][NextWalk]_vars

\* fetch_blocks called on its own, with a cap
InitBlocks ==
    /\ BRIDGE_SECRET = ""
    /\ data_sources = [tag |-> "missing", list |-> << >>]
    /\ listing = NoListing /\ block_listing \in EntryListings
    /\ pc = "blocks" /\ response = None
    /\ req \in {[BaseRequest EXCEPT !.ep = "fetch_blocks", !.max_blocks = cap] :
                   cap \in 1..MaxCap}
    /\ calls = << >> /\ replies = << >>
    /\ parent = None /\ ds_id = None /\ pages = << >> /\ cursor = None
    /\ res = NoRes /\ batch = << <<0, 1>> >> /\ idx = 1 /\ walk = NoWalk
    /\ seen_ds = None /\ migrated = FALSE
    /\ uuid_in = << >> /\ uuid_out = None /\ uuid_again = None /\ uuid_edits = 0
    /\ seg_in = << >> /\ seg_out = None
    /\ pm_in = None /\ pm_out = None

NextBlocks == Blocks

SpecBlocks == InitBlocks /\ [][NextBlocks]_vars

\* the machine at rest, for the specifications of the pure functions
InitUuid ==
    /\ uuid_in \in UuidSeeds
    /\ uuid_out = None /\ uuid_again = None /\ uuid_edits = 0
    /\ seg_in = << >> /\ seg_out = None
    /\ pm_in = None /\ pm_out = None
    /\ BRIDGE_SECRET = "" /\ data_sources = [tag |-> "missing", list |-> << >>]
    /\ listing = NoListing /\ block_listing = NoListing
    /\ pc = "idle" /\ req = BaseRequest /\ response = None
    /\ calls = << >> /\ replies = << >>
    /\ parent = None /\ ds_id = None /\ pages = << >> /\ cursor = None
    /\ res = NoRes /\ batch = << >> /\ idx = 0 /\ walk = NoWalk
    /\ seen_ds = None /\ migrated = FALSE

InitSeg ==
    /\ seg_in \in Texts(MaxText)
    /\ seg_out = None
    /\ uuid_in = << >> /\ uuid_out = None /\ uuid_again = None /\ uuid_edits = 0
    /\ pm_in = None /\ pm_out = None
    /\ BRIDGE_SECRET = "" /\ data_sources = [tag |-> "missing", list |-> << >>]
    /\ listing = NoListing /\ block_listing = NoListing
    /\ pc = "idle" /\ req = BaseRequest /\ response = None
    /\ calls = << >> /\ replies = << >>
    /\ parent = None /\ ds_id = None /\ pages = << >> /\ cursor = None
    /\ res = NoRes /\ batch = << >> /\ idx = 0 /\ walk = NoWalk
    /\ seen_ds = None /\ migrated = FALSE

InitProps ==
    /\ pm_in \in [ep : {"append"}, q : AppendQueries, body : Bodies]
                 \cup [ep : {"seed_covenant"}, q : SeedQueries, body : Bodies]
    /\ pm_out = None
    /\ uuid_in = << >> /\ uuid_out = None /\ uuid_again = None /\ uuid_edits = 0
    /\ seg_in = << >> /\ seg_out = None
    /\ BRIDGE_SECRET = "" /\ data_sources = [tag |-> "missing", list |-> << >>]
    /\ listing = NoListing /\ block_listing = NoListing
    /\ pc = "idle" /\ req = BaseRequest /\ response = None
    /\ calls = << >> /\ replies = << >>
    /\ parent = None /\ ds_id = None /\ pages = << >> /\ cursor = None
    /\ res = NoRes /\ batch = << >> /\ idx = 0 /\ walk = NoWalk
    /\ seen_ds = None /\ migrated = FALSE

NextUuid == UuidInsert \/ UuidDelete \/ UuidNormalize \/ UuidNormalizeAgain
NextSeg == SegApply \/ SegForget
NextProps == PmAppend \/ PmSeed

SpecUuid == InitUuid /\ [][NextUuid]_vars
SpecSeg == InitSeg /\ [][NextSeg]_vars
SpecProps == InitProps /\ [][NextProps]_vars

(***************************************************************************)
(* C10: container-id normalization.                                        *)
(***************************************************************************)
HexAny == HexLower \cup {"A", "B", "C", "D", "E", "F"}

\* the k-th smallest element of a set of numbers
Kth(K, k) == CHOOSE i \in K : Cardinality({j \in K : j <= i}) = k

\* the characters of s at the positions K, in order
Pick(s, K) == [k \in 1..Cardinality(K) |-> s[Kth(K, k)]]

HexPositions(s) == {i \in 1..Len(s) : s[i] \in HexAny}

\* r is the canonical form of the hex digits of s: 36 characters, hyphens
\* after 8, 12, 16 and 20 digits, the digits of s in order and in lower case
IsCanonicalOf(r, s) ==
    /\ Len(r) = 36
    /\ \A i \in {9, 14, 19, 24} : r[i] = "-"
    /\ LET d == Pick(s, HexPositions(s))
           e == Pick(r, (1..36) \ {9, 14, 19, 24})
       IN  /\ Len(d) = 32
           /\ \A i \in 1..32 :
                 /\ e[i] \in HexLower
                 /\ \/ e[i] = d[i]
                    \/ <<d[i], e[i]>> \in {<<"A", "a">>, <<"B", "b">>, <<"C", "c">>,
                                           <<"D", "d">>, <<"E", "e">>, <<"F", "f">>}

\* s is 32 hex digits in any case with hyphens anywhere, and nothing else
Hex32WithHyphens(s) ==
    /\ \A i \in 1..Len(s) : s[i] \in HexAny \cup {"-"}
    /\ Cardinality(HexPositions(s)) = 32

\* s is whitespace, then 32 hex digits with hyphens anywhere, then whitespace
Hex32Padded(s) ==
    \E a, b \in 0..Len(s) :
        /\ a + b <= Len(s)
        /\ \A i \in 1..a : s[i] \in Whitespace
        /\ \A i \in (Len(s) - b + 1)..Len(s) : s[i] \in Whitespace
        /\ Hex32WithHyphens(SubSeq(s, a + 1, Len(s) - b))

Idempotent == ~IsNone(uuid_again) => Val(uuid_again) = Val(uuid_out)

\* C10 as stated: an input of 32 hex digits in any case with hyphens at any
\* positions normalizes to the lowercase 8-4-4-4-12 form, every other input
\* (wrong length, a non-hex character, empty) is returned unchanged, and
\* normalizing a result again returns it unchanged.
C10_AsStated ==
    /\ ~IsNone(uuid_out) =>
          IF Hex32WithHyphens(uuid_in) THEN IsCanonicalOf(Val(uuid_out), uuid_in)
          ELSE Val(uuid_out) = uuid_in
    /\ Idempotent

\* C10 amended: an input that, once leading and trailing whitespace is
\* trimmed, is 32 hex digits in any case with hyphens at any positions
\* normalizes to the lowercase 8-4-4-4-12 form; every other input is
\* returned unchanged; normalizing a result again returns it unchanged.
C10_Normalize ==
    /\ ~IsNone(uuid_out) =>
          IF Hex32Padded(uuid_in) THEN IsCanonicalOf(Val(uuid_out), uuid_in)
          ELSE Val(uuid_out) = uuid_in
    /\ Idempotent

\* a padded, hyphenated, upper-case id was normalized twice
C10_Witness ==
    /\ ~IsNone(uuid_again)
    /\ Hex32Padded(uuid_in)
    /\ ~Hex32WithHyphens(uuid_in)
    /\ \E i \in 1..Len(uuid_in) : uuid_in[i] \in {"A", "B", "C", "D", "E", "F"}
    /\ Val(uuid_out) # uuid_in

(***************************************************************************)
(* C6: property mapping on create.                                         *)
(***************************************************************************)
\* the entry field behind each optional property label
FieldOf ==
    [k \in {"Type", "Phase", "Status", "Compass", "Shadow", "Resonance (1-5)", "Slug",
            "Artifacts"} |->
        CASE k = "Type" -> "type" [] k = "Phase" -> "phase" [] k = "Status" -> "status"
          [] k = "Compass" -> "compass" [] k = "Shadow" -> "shadow"
          [] k = "Resonance (1-5)" -> "resonance" [] k = "Slug" -> "slug"
          [] k = "Artifacts" -> "artifact_url"]

\* a field is supplied when body or query gives it a value that is not empty:
\* a non-empty string, a boolean, a number, a compass list with a name in it
Supplied(q, body, f) ==
    LET v == IF ~IsNone(body) /\ ~IsNone(Val(body)[f]) THEN Val(body)[f] ELSE q[f]
    IN  /\ ~IsNone(v)
        /\ CASE f \in {"shadow", "resonance"} -> TRUE
             [] f = "artifact_url" -> Val(v) # << >>
             [] f = "compass" ->
                   \E i \in 1..Len(Val(v)) : Val(v)[i] \notin Whitespace \cup {","}
             [] OTHER -> Val(v) # ""

\* C6: the properties sent on create hold an optional field's key if and
\* only if the field was supplied, and no key is mapped to null or to an
\* empty choice (append: all optional keys; seed_covenant: Compass).
C6_PropertyMapping ==
    ~IsNone(pm_out) =>
        LET props == Val(pm_out)
            optional == IF pm_in.ep = "append" THEN DOMAIN FieldOf ELSE {"Compass"}
        IN  /\ \A k \in optional :
                  k \in DOMAIN props <=> Supplied(pm_in.q, pm_in.body, FieldOf[k])
            /\ \A k \in DOMAIN props :
                  /\ ~IsNone(props[k])
                  /\ k \in {"Type", "Phase", "Status"} => Val(props[k]).select # ""
                  /\ k = "Compass" => Val(props[k]).multi_select # << >>

(***************************************************************************)
(* C8: content segmentation.                                               *)
(***************************************************************************)
\* the text with every "\r" that a "\n" follows removed
RefNormalized(s) ==
    Pick(s, {i \in 1..Len(s) : ~(s[i] = "\r" /\ i < Len(s) /\ s[i + 1] = "\n")})

\* the positions where a double line break starts: within a run of line
\* breaks, the first, third, fifth ... position that a line break follows
RefCuts(t) ==
    {i \in 1..(Len(t) - 1) :
        /\ t[i] = "\n" /\ t[i + 1] = "\n"
        /\ LET run == CHOOSE r \in 1..i :
                         /\ \A j \in r..i : t[j] = "\n"
                         /\ (r = 1 \/ t[r - 1] # "\n")
           IN  (i - run) % 2 = 0}

\* the segments between the double line breaks, in order
RefSegments(t) ==
    LET cuts == RefCuts(t)
        n == Cardinality(cuts)
        from(k) == IF k = 1 THEN 1 ELSE Kth(cuts, k - 1) + 2
        to(k) == IF k = n + 1 THEN Len(t) ELSE Kth(cuts, k) - 1
    IN  [k \in 1..(n + 1) |-> SubSeq(t, from(k), to(k))]

IsBlank(p) == \A i \in 1..Len(p) : p[i] \in Whitespace

\* p without its leading and trailing whitespace
RefTrimmed(p) ==
    LET keep == {i \in 1..Len(p) : \E j, k \in 1..Len(p) :
                    j <= i /\ i <= k /\ p[j] \notin Whitespace /\ p[k] \notin Whitespace}
    IN  Pick(p, keep)

\* C8: for a non-empty text the segmenter returns at least one block, all
\* paragraphs; one paragraph per non-blank segment of the CRLF-normalized
\* text split on double line breaks, trimmed, in order; and when no segment
\* is non-blank exactly one paragraph holding the text verbatim.
C8_Segmentation ==
    (~IsNone(seg_out) /\ seg_in # << >>) =>
        LET blocks == Val(seg_out)
            segs == SelectSeq(RefSegments(RefNormalized(seg_in)), LAMBDA p : ~IsBlank(p))
        IN  /\ Len(blocks) >= 1
            /\ \A i \in 1..Len(blocks) : blocks[i].type = "paragraph"
            /\ IF segs # << >>
               THEN /\ Len(blocks) = Len(segs)
                    /\ \A i \in 1..Len(segs) : blocks[i].content = RefTrimmed(segs[i])
               ELSE blocks = <<make_paragraph_block(seg_in)>>

\* "A", blank line, "B" was segmented into the two paragraphs A and B
C8_Witness ==
    /\ seg_in = <<"a", "\n", "\n", "b">>
    /\ seg_out = Some(<<make_paragraph_block(<<"a">>), make_paragraph_block(<<"b">>)>>)

(***************************************************************************)
(* C1: the access gate.                                                    *)
(***************************************************************************)
\* the claim's condition: no secret is configured, or the header or the
\* query parameter carries the configured one
Authorized ==
    BRIDGE_SECRET \in {""} \cup {Val(x) : x \in {req.x_bridge_secret, req.secret} \ {None}}

\* the request is over and was turned away by the gate
Refused ==
    /\ pc = "done"
    /\ Val(response).status = 401
    /\ Val(response).detail = "Unauthorized: missing/invalid bridge secret"

\* C1: a request is authorized iff no secret is configured or the header or
\* the query parameter equals it; a request that is not authorized ends with
\* status 401 and no remote call was issued for it.
C1_Gate ==
    pc # "idle" =>
        /\ ~Authorized => calls = << >> /\ pc \in {"gate", "done"}
        /\ (pc = "done" /\ ~Authorized) => Refused
        /\ Authorized => ~Refused

(***************************************************************************)
(* C9: validation of the title.                                            *)
(***************************************************************************)
BodyText == IF IsNone(req.body) THEN None ELSE Val(req.body).text

CreateCalls == {i \in 1..Len(calls) : calls[i].method = "POST" /\ calls[i].path = "pages"}

\* C9: a create request to append or log fails validation, with no remote
\* call, only when text is in neither the query nor the body; with the title
\* in the body alone or the query alone it passes validation, and the body's
\* title is the one sent when both are given.
C9_Validation ==
    (pc # "idle" /\ req.ep \in {"append", "log"}) =>
        /\ (pc = "done" /\ Val(response).status = 422) =>
              (req.q.text = None /\ BodyText = None /\ calls = << >>)
        /\ \A i \in CreateCalls :
              Val(Val(calls[i].json).properties["Name"]).title =
                 IF BodyText # None THEN Val(BodyText) ELSE Val(req.q.text)

(***************************************************************************)
(* C7: remote errors pass through.                                         *)
(***************************************************************************)
\* C7: a remote reply of status 400 or above ends the request with that
\* status and the reply's body as the message and no listing; the call is
\* not retried and no further call is issued.
C7_ErrorPassthrough ==
    /\ Len(calls) = Len(replies)
    /\ \A i \in 1..Len(replies) :
          replies[i].status >= 400 =>
             /\ i = Len(calls)
             /\ pc = "done"
             /\ response = Some([status |-> replies[i].status,
                                 detail |-> replies[i].text, pages |-> << >>])

\* after the metadata read and a first page with items, the second page
\* query of a fetch_all failed
C7_Witness ==
    /\ req.ep = "fetch_all"
    /\ Len(replies) = 3
    /\ replies[2].results # << >>
    /\ replies[3].status = 503
    /\ pc = "done"
    /\ Val(response).status = 503

(***************************************************************************)
(* C4: container resolution.                                               *)
(***************************************************************************)
MetadataReads == {i \in 1..Len(calls) : calls[i].path = "databases"}

\* C4: a resolution reads the metadata exactly once; when the metadata lists
\* data sources the result is the data-source mode with the first listed id,
\* otherwise (no list, null, empty) the legacy mode with the container id;
\* the two resolvers agree on the metadata that was read.
C4_Resolution ==
    /\ Cardinality(MetadataReads) <= 1
    /\ ~IsNone(seen_ds) =>
          LET d == Val(seen_ds)
              listed == d.tag = "list" /\ Len(d.list) >= 1
          IN  /\ Cardinality(MetadataReads) = 1
              /\ req.ep \in Creates =>
                    parent = Some(IF listed
                                  THEN [type |-> "data_source_id", id |-> Head(d.list)]
                                  ELSE [type |-> "database_id", id |-> DB_ID])
              /\ req.ep \in Listers =>
                    ds_id = IF listed THEN Some(Head(d.list)) ELSE None
              /\ get_parent_for_create(d).type = "data_source_id"
                    <=> ~IsNone(get_data_source_id(d))
              /\ ~IsNone(get_data_source_id(d)) =>
                    get_parent_for_create(d).id = Val(get_data_source_id(d))

\* a create resolved a container that lists [X, Y] to X
C4_Witness ==
    /\ req.ep = "append"
    /\ seen_ds = Some([tag |-> "list", list |-> << <<"X">>, <<"Y">> >>])
    /\ parent = Some([type |-> "data_source_id", id |-> <<"X">>])
    /\ pc = "done"
    /\ CreateCalls # {}

(***************************************************************************)
(* C5: the addressing mode is fixed within a request.                      *)
(***************************************************************************)
QueryCalls == {i \in 1..Len(calls) : calls[i].path \in {"data_sources/query", "databases/query"}}

\* the addressing a metadata value stands for
ModeOf(d) ==
    IF d.tag = "list" /\ d.list # << >>
    THEN [mode |-> "data-source", id |-> d.list[1]]
    ELSE [mode |-> "legacy-database", id |-> DB_ID]

\* the addressing a call uses
ModeUsed(c) ==
    CASE c.path = "data_sources/query" -> [mode |-> "data-source", id |-> c.target]
      [] c.path = "databases/query" -> [mode |-> "legacy-database", id |-> c.target]
      [] c.path = "pages" ->
            [mode |-> IF Val(c.json).parent.type = "data_source_id" THEN "data-source"
                      ELSE "legacy-database",
             id |-> Val(c.json).parent.id]

\* C5: a request resolves the container at most once, and every query and
\* create call of the request uses the mode and id of that resolution even
\* when the container changes in between; nothing is carried over from an
\* earlier request: while the request runs and the container has not changed
\* since the request's own resolution, the mode in use is that of the
\* container as it is now.
C5_ModeFixed ==
    /\ Cardinality(MetadataReads) <= 1
    /\ \A i \in QueryCalls \cup CreateCalls :
          /\ ~IsNone(seen_ds)
          /\ MetadataReads = {1}
          /\ ModeUsed(calls[i]) = ModeOf(Val(seen_ds))
          /\ (~migrated /\ pc # "done") => ModeUsed(calls[i]) = ModeOf(data_sources)

\* a fetch_all walked three pages in legacy mode while the container became
\* multi-source after the first page
C5_Witness ==
    /\ req.ep = "fetch_all"
    /\ pc = "done"
    /\ Val(response).status = 200
    /\ Cardinality(QueryCalls) = 3
    /\ migrated
    /\ ModeOf(Val(seen_ds)).mode = "legacy-database"
    /\ ModeOf(data_sources).mode = "data-source"
    /\ \A i \in QueryCalls : calls[i].path = "databases/query"

(***************************************************************************)
(* C2: the uncapped walk of fetch_all.                                     *)
(***************************************************************************)
\* the items of a listing, page after page
AllItems(served) ==
    LET items == UNION {{served[k][j] : j \in 1..Len(served[k])} : k \in 1..Len(served)}
        before(a, b) == a[1] < b[1] \/ (a[1] = b[1] /\ a[2] <= b[2])
    IN  [n \in 1..Cardinality(items) |->
            CHOOSE it \in items : Cardinality({o \in items : before(o, it)}) = n]

IsPrefix(a, b) == Len(a) <= Len(b) /\ \A i \in 1..Len(a) : a[i] = b[i]

Ids(objs) == [i \in 1..Len(objs) |-> objs[i].id]

\* C2: fetch_all returns the items of every page in the remote's order,
\* with one query call per page, each call after the first carrying the
\* previous reply's next_cursor, and stops at the first reply without more.
C2_UncappedWalk ==
    (pc # "idle" /\ req.ep = "fetch_all") =>
        /\ IsPrefix(Ids(pages), AllItems(listing))
        /\ \A i \in QueryCalls :
              LET earlier == {j \in QueryCalls : j < i}
              IN  IF earlier = {}
                  THEN calls[i].cursor = None /\ Val(calls[i].json).start_cursor = None
                  ELSE LET j == Kth(earlier, Cardinality(earlier))
                       IN  /\ replies[j].has_more
                           /\ ~IsNone(replies[j].next_cursor)
                           /\ calls[i].cursor = replies[j].next_cursor
                           /\ Val(calls[i].json).start_cursor = replies[j].next_cursor
        /\ (pc = "done" /\ Val(response).status = 200) =>
              /\ Ids(Val(response).pages) = AllItems(listing)
              /\ Cardinality(QueryCalls) = Len(listing)
              /\ ~replies[Kth(QueryCalls, Cardinality(QueryCalls))].has_more

\* pages [A, B], [C], then an empty last page: three calls, A B C returned
C2_Witness ==
    /\ req.ep = "fetch_all"
    /\ listing = ListingOf(<<2, 1, 0>>)
    /\ pc = "done"
    /\ Cardinality(QueryCalls) = 3
    /\ Ids(Val(response).pages) = << <<1, 1>>, <<1, 2>>, <<2, 1>> >>

(***************************************************************************)
(* C3: the capped walk of fetch_blocks.                                    *)
(***************************************************************************)
RECURSIVE Fetched(_)
\* the number of items the first n replies brought
Fetched(n) == IF n = 0 THEN 0 ELSE Fetched(n - 1) + Len(replies[n].results)

RECURSIVE Gathered(_)
\* the items the first n replies brought
Gathered(n) == IF n = 0 THEN << >> ELSE Gathered(n - 1) \o replies[n].results

\* C3: fetch_blocks issues a further call only after a reply that reported
\* more while the count was still below the cap, and then with the reply's
\* cursor; it does not stop before that; it returns what the replies brought.
C3_CappedWalk ==
    req.ep = "fetch_blocks" =>
        /\ \A i \in 2..Len(calls) :
              /\ replies[i - 1].has_more
              /\ Fetched(i - 1) < req.max_blocks
              /\ calls[i].cursor = replies[i - 1].next_cursor
        /\ (pc = "blocks" /\ Len(replies) >= 1) =>
              replies[Len(replies)].has_more /\ Fetched(Len(replies)) < req.max_blocks
        /\ (pc = "done" /\ Val(response).status = 200) =>
              /\ ~replies[Len(replies)].has_more \/ Fetched(Len(replies)) >= req.max_blocks
              /\ Val(Val(response).pages[1].blocks) = Gathered(Len(replies))
              /\ IsPrefix(Gathered(Len(replies)), AllItems(block_listing))

\* cap 2, first page [A, B] with more to come: one call, [A, B] returned
C3_Witness ==
    /\ req.ep = "fetch_blocks"
    /\ req.max_blocks = 2
    /\ block_listing = ListingOf(<<2, 1>>)
    /\ pc = "done"
    /\ Len(calls) = 1
    /\ replies[1].has_more
    /\ Val(Val(response).pages[1].blocks) = << <<1, 1>>, <<1, 2>> >>

====
